---- MODULE Spec2Model ----
(***************************************************************************)
(* Model of src/lib/db.ts: a pg connection pool (max 2), the tagged        *)
(* template helper sql, the executor query, the manual checkout getClient, *)
(* the schema bootstrap init with its promise ready, and closePool.        *)
(***************************************************************************)
EXTENDS Integers, Sequences, FiniteSets, TLC

VARIABLES
    \* ---- sql (pure function) ----
    strings,        \* the TemplateStringsArray handed to sql
    values,         \* the interpolated values handed to sql
    out,            \* what sql returned: [text, values], or NoResult before the call
    \* ---- module load ----
    env,            \* process.env.DATABASE_URL
    loaded,         \* "no" | "ok" | "failed": outcome of evaluating the module
    \* ---- pg Pool ----
    clients,        \* pool._clients: connections that exist (checked out, idle or connecting)
    idle,           \* pool._idle: sequence of idle connections (push / pop)
    pendingQueue,   \* pool._pendingQueue: suspended acquires, FIFO
    ending,         \* pool.ending
    ended,          \* pool.ended
    \* ---- async flows: 0 is init, 1..NumCallers are callers ----
    pc,             \* position of each flow
    conn,           \* connection a flow's current pool operation connects / runs on
    held,           \* connection a caller obtained through getClient and has not released
    result,         \* outcome of a caller's call that has just completed
    gated,          \* callers whose call in progress came after `await ready` resolved
    qsent,          \* times pool.query has sent the statement of a caller's call in progress
    answer,         \* what the server answered to that statement ("none": no answer yet)
    \* ---- init ----
    ip,             \* index in Stmts of the statement init is awaiting
    caught,         \* err of the catch block
    ready,          \* state of the promise ready
    readyErr,       \* rejection reason of ready
    console,        \* console.info / console.error lines
    released,       \* number of client.release() calls made by init
    sent,           \* what init has sent in this run: <<connection, verb>>
    last,           \* the statement init issued last in this run ("none": none yet)
    faulted,        \* the environment injected a failure into this run
    committed,      \* init's COMMIT was acknowledged
    \* ---- database ----
    db,             \* persisted catalog: objects that exist
    txn,            \* objects created in init's open transaction, not yet persisted
    dbAtStart,      \* db when the current run started
    discarded,      \* this run's transaction held objects when it was rolled back or lost
    early           \* statements of callers run before init's COMMIT: was the call gated?

sqlVars  == <<strings, values, out>>
loadVars == <<env, loaded>>
poolVars == <<clients, idle, pendingQueue, ending, ended>>
flowVars == <<pc, conn, held, result, gated, qsent, answer>>
initVars == <<ip, caught, ready, readyErr, console, released, sent, last, faulted, committed>>
dbVars   == <<db, txn, dbAtStart, discarded, early>>
vars == <<sqlVars, loadVars, poolVars, flowVars, initVars, dbVars>>

---------------------------------------------------------------------------
\* Bounds of the model
MaxStrings == 4
MaxValues == 3
NumCallers == 2

\* new Pool({ max: 2 })
PoolMax == 2

---------------------------------------------------------------------------
\* sql: text is a sequence of characters, values are opaque

FragmentSet == {<<>>, <<"a">>, <<"$", "1">>}
ValueSet == {"x", "y"}
NoResult == [text |-> <<"?">>, values |-> <<"?">>]

DigitChar == <<"0", "1", "2", "3", "4", "5", "6", "7", "8", "9">>

\* `${n}`: decimal digits of a non-negative number
RECURSIVE NumberToString(_)
NumberToString(n) ==
    IF n < 10 THEN <<DigitChar[n + 1]>>
    ELSE NumberToString(n \div 10) \o <<DigitChar[(n % 10) + 1]>>

\* the loop body of sql from index i on (i is 0-based as in the source)
RECURSIVE sqlLoopZeroBased(_, _, _, _, _)
sqlLoopZeroBased(ss, vs, i, text, params) ==
    IF ~(i < Len(ss)) THEN [text |-> text, values |-> params]
    ELSE LET t1 == text \o ss[i + 1] IN
         IF i < Len(vs)
         THEN LET p == Append(params, vs[i + 1]) IN
              sqlLoopZeroBased(ss, vs, i + 1, t1 \o <<"$">> \o NumberToString(i), p)
         ELSE sqlLoopZeroBased(ss, vs, i + 1, t1, params)

RECURSIVE sqlLoop(_, _, _, _, _)
sqlLoop(ss, vs, i, text, params) ==
    IF ~(i < Len(ss)) THEN [text |-> text, values |-> params]
    ELSE LET t1 == text \o ss[i + 1] IN
         IF i < Len(vs)
         THEN LET p == Append(params, vs[i + 1]) IN
              sqlLoop(ss, vs, i + 1, t1 \o <<"$">> \o NumberToString(Len(p)), p)
         ELSE sqlLoop(ss, vs, i + 1, t1, params)

\* sql that hands back every value it was given, placeholder or not
sqlAllValues(ss, vs) == [text |-> sqlLoop(ss, vs, 0, <<>>, <<>>).text, values |-> vs]

sql(ss, vs) == sqlLoop(ss, vs, 0, <<>>, <<>>)

SeqsUpTo(S, lo, hi) == UNION {[1..n -> S] : n \in lo..hi}

---------------------------------------------------------------------------
\* Database catalog and the statements of init

\* init with the sessions table created before the users table it references
StmtsSessionsFirst == <<"BEGIN", "pgcrypto", "sessions", "users", "verification_tokens",
                        "chat_sessions", "idx_sessions_user_id", "idx_chat_user_id",
                        "idx_verification_identifier", "COMMIT">>

Stmts == <<"BEGIN", "pgcrypto", "users", "sessions", "verification_tokens",
           "chat_sessions", "idx_sessions_user_id", "idx_chat_user_id",
           "idx_verification_identifier", "COMMIT">>

Tables == {"users", "sessions", "verification_tokens", "chat_sessions"}
Indexes == {"idx_sessions_user_id", "idx_chat_user_id", "idx_verification_identifier"}
AllObjects == {"pgcrypto"} \cup Tables \cup Indexes

\* what a statement's text refers to: gen_random_uuid() comes from pgcrypto,
\* REFERENCES users(id), ON <table>(column)
Requires(obj) ==
    CASE obj = "pgcrypto" -> {}
      [] obj = "users" -> {"pgcrypto"}
      [] obj = "sessions" -> {"pgcrypto", "users"}
      [] obj = "verification_tokens" -> {"pgcrypto"}
      [] obj = "chat_sessions" -> {"pgcrypto", "users"}
      [] obj = "idx_sessions_user_id" -> {"sessions"}
      [] obj = "idx_chat_user_id" -> {"chat_sessions"}
      [] obj = "idx_verification_identifier" -> {"verification_tokens"}

\* CREATE <obj> (without IF NOT EXISTS): an existing object is an error
CreatePlain(obj, visible) ==
    IF obj \in visible THEN [ok |-> FALSE, creates |-> {}]
    ELSE IF Requires(obj) \subseteq visible THEN [ok |-> TRUE, creates |-> {obj}]
    ELSE [ok |-> FALSE, creates |-> {}]

\* CREATE ... IF NOT EXISTS <obj>, run where `visible` objects exist
CreateIfNotExists(obj, visible) ==
    IF obj \in visible THEN [ok |-> TRUE, creates |-> {}]
    ELSE IF Requires(obj) \subseteq visible THEN [ok |-> TRUE, creates |-> {obj}]
    ELSE [ok |-> FALSE, creates |-> {}]

\* the verb of a statement of init
Verb(s) == IF s \in AllObjects THEN "CREATE" ELSE s

\* errors: which call threw (the verb of the statement, or "connect"), and how
NoErr == [at |-> "none", kind |-> "none"]
Err(at, kind) == [at |-> at, kind |-> kind]

InitialCatalogs == {{}}
UrlValues == {"undefined", "", "postgres://db"}

---------------------------------------------------------------------------
\* pg Pool as used by this module (max: 2, no connectionTimeoutMillis)

Flows == 0..NumCallers
Callers == 1..NumCallers
\* one identity more than max, so that a pool exceeding its bound is a state
Conns == 1..(PoolMax + 1)
NoRes == <<"none", "none">>

Range(s) == {s[i] : i \in DOMAIN s}
NewId(cl) == CHOOSE i \in Conns \ cl : \A j \in Conns \ cl : i <= j

World == [clients |-> clients, idle |-> idle, pendingQueue |-> pendingQueue,
          ending |-> ending, ended |-> ended,
          pc |-> pc, conn |-> conn, held |-> held, result |-> result,
          qsent |-> qsent, answer |-> answer]

OpOf(w, p) == IF w.pc[p] \in {"q_call", "q_wait", "q_conn", "q_run"} THEN "query" ELSE "getClient"

\* the pending item's callback runs with a client: pool.query sends its
\* statement on it, getClient returns it to its caller
give(w, p, id) ==
    IF OpOf(w, p) = "query"
    THEN [w EXCEPT !.pc[p] = "q_run", !.conn[p] = id, !.qsent[p] = @ + 1]
    ELSE [w EXCEPT !.pc[p] = "ret", !.conn[p] = 0, !.held[p] = id,
                   !.result[p] = <<"getClient", "client">>]

\* pool.newClient: the client counts against max while it connects
newClient(w, p) ==
    LET id == NewId(w.clients) IN
    [w EXCEPT !.clients = @ \cup {id}, !.conn[p] = id,
              !.pc[p] = IF OpOf(w, p) = "query" THEN "q_conn" ELSE "g_conn"]

\* pool._pulseQueue
pulseQueue(w) ==
    IF w.ended THEN w
    ELSE IF w.ending THEN
        LET left == w.clients \ Range(w.idle) IN
        IF left = {}
        THEN [w EXCEPT !.clients = {}, !.idle = <<>>, !.ended = TRUE,
                       !.pc = [p \in Flows |-> IF w.pc[p] = "e_wait" THEN "ret" ELSE w.pc[p]],
                       !.result = [p \in Flows |-> IF w.pc[p] = "e_wait"
                                                   THEN <<"closePool", "closed">>
                                                   ELSE w.result[p]]]
        ELSE [w EXCEPT !.clients = left, !.idle = <<>>]
    ELSE IF w.pendingQueue = <<>> THEN w
    ELSE IF w.idle = <<>> /\ Cardinality(w.clients) >= PoolMax THEN w
    ELSE LET p == Head(w.pendingQueue)
             w1 == [w EXCEPT !.pendingQueue = Tail(@)] IN
         IF w.idle # <<>>
         THEN give([w1 EXCEPT !.idle = SubSeq(@, 1, Len(@) - 1)], p, w.idle[Len(w.idle)])
         ELSE newClient(w1, p)

\* pool.connect() that opens a new client whenever none is idle, full or not
connectNoLimit(w, p) ==
    IF w.ending
    THEN [w EXCEPT !.pc[p] = "ret", !.result[p] = <<OpOf(w, p), "PoolEnded">>]
    ELSE IF w.idle # <<>>
    THEN pulseQueue([w EXCEPT !.pendingQueue = Append(@, p),
                              !.pc[p] = IF OpOf(w, p) = "query" THEN "q_wait" ELSE "g_wait"])
    ELSE newClient(w, p)

\* pool.connect() that does not look at pool.ending
connectNoEndCheck(w, p) ==
    IF Cardinality(w.clients) >= PoolMax \/ w.idle # <<>>
    THEN LET w1 == [w EXCEPT !.pendingQueue = Append(@, p),
                             !.pc[p] = IF OpOf(w, p) = "query" THEN "q_wait" ELSE "g_wait"] IN
         IF w.idle # <<>> /\ ~w.ending THEN pulseQueue(w1) ELSE w1
    ELSE newClient(w, p)

\* pool.connect() by flow p, whose pc already names the operation ("q_call" / "g_call")
connect(w, p) ==
    IF w.ending
    THEN [w EXCEPT !.pc[p] = "ret", !.result[p] = <<OpOf(w, p), "PoolEnded">>]
    ELSE IF Cardinality(w.clients) >= PoolMax \/ w.idle # <<>>
    THEN LET w1 == [w EXCEPT !.pendingQueue = Append(@, p),
                             !.pc[p] = IF OpOf(w, p) = "query" THEN "q_wait" ELSE "g_wait"] IN
         IF w.idle # <<>> THEN pulseQueue(w1) ELSE w1
    ELSE newClient(w, p)

\* pool._release that puts the client back without pulsing the queue
releaseNoPulse(w, id, bad) ==
    IF bad \/ w.ending
    THEN [w EXCEPT !.clients = @ \ {id}]
    ELSE [w EXCEPT !.idle = Append(@, id)]

\* client.release(err) -> pool._release: a client released with an error, while
\* the pool is ending, or no longer queryable is removed, otherwise it goes idle
release(w, id, bad) ==
    IF bad \/ w.ending
    THEN pulseQueue([w EXCEPT !.clients = @ \ {id}])
    ELSE pulseQueue([w EXCEPT !.idle = Append(@, id)])

\* pool.end()
end(w, p) ==
    IF w.ending
    THEN [w EXCEPT !.pc[p] = "ret", !.result[p] = <<"closePool", "EndTwice">>]
    ELSE pulseQueue([w EXCEPT !.ending = TRUE, !.pc[p] = "e_wait"])

Apply(w) ==
    /\ clients' = w.clients
    /\ idle' = w.idle
    /\ pendingQueue' = w.pendingQueue
    /\ ending' = w.ending
    /\ ended' = w.ended
    /\ pc' = w.pc
    /\ conn' = w.conn
    /\ held' = w.held
    /\ result' = w.result
    /\ qsent' = w.qsent
    /\ answer' = w.answer

---------------------------------------------------------------------------
\* Module load: lines 4-15 and `export const ready = init()`

NoFlows == [p \in Flows |-> 0]

\* connectionString === undefined: an empty DATABASE_URL passes
FalsyUndefinedOnly(v) == v = "undefined"

\* !connectionString
Falsy(v) == v = "undefined" \/ v = ""

\* a process evaluates the module: the first start, or a restart of the process
\* once the previous run's bootstrap has settled (the database outlives it)
Load ==
    /\ loaded = "no" \/ loaded = "failed" \/ ready # "pending"
    /\ idle' = <<>> /\ pendingQueue' = <<>> /\ ending' = FALSE /\ ended' = FALSE
    /\ held' = NoFlows
    /\ result' = [p \in Flows |-> NoRes]
    /\ gated' = {}
    /\ qsent' = NoFlows /\ answer' = [p \in Flows |-> "none"]
    /\ ip' = 0 /\ caught' = NoErr /\ ready' = "pending" /\ readyErr' = NoErr
    /\ console' = <<>> /\ released' = 0 /\ sent' = {} /\ last' = "none"
    /\ faulted' = FALSE /\ committed' = FALSE
    /\ txn' = {} /\ dbAtStart' = db /\ discarded' = FALSE /\ early' = {}
    /\ IF Falsy(env)
       THEN \* throw new Error('Missing DATABASE_URL environment variable')
            /\ loaded' = "failed"
            /\ clients' = {}
            /\ pc' = [p \in Flows |-> IF p = 0 THEN "unstarted" ELSE "idle"]
            /\ conn' = NoFlows
       ELSE \* new Pool(...); init() runs up to its first await: pool.connect()
            /\ loaded' = "ok"
            /\ clients' = {1}
            /\ pc' = [p \in Flows |-> IF p = 0 THEN "connect" ELSE "idle"]
            /\ conn' = [p \in Flows |-> IF p = 0 THEN 1 ELSE 0]
    /\ UNCHANGED <<sqlVars, env, db>>

---------------------------------------------------------------------------
\* init (lines 46-121)

\* finally { client.release() } placed after the catch's last statement instead:
\* skipped when the catch block itself throws
initSettleNoFinally(w, outcome, err, bad) ==
    /\ Apply(IF err.at = "ROLLBACK"
             THEN [w EXCEPT !.pc[0] = "done"]
             ELSE release([w EXCEPT !.pc[0] = "done", !.conn[0] = 0], conn[0], bad))
    /\ released' = IF err.at = "ROLLBACK" THEN released ELSE released + 1
    /\ ready' = outcome
    /\ readyErr' = err

\* ready = init().catch(console.error): a failed bootstrap resolves ready
initSettleSwallow(w, outcome, err, bad) ==
    /\ Apply(release([w EXCEPT !.pc[0] = "done", !.conn[0] = 0], conn[0], bad))
    /\ released' = released + 1
    /\ ready' = "resolved"
    /\ readyErr' = NoErr

\* init's tail: finally { client.release() }, then the promise settles
initSettle(w, outcome, err, bad) ==
    /\ Apply(release([w EXCEPT !.pc[0] = "done", !.conn[0] = 0], conn[0], bad))
    /\ released' = released + 1
    /\ ready' = outcome
    /\ readyErr' = err

\* client.query(s) is called on init's client
Send(s) == sent' = sent \cup {<<conn[0], Verb(s)>>} /\ last' = s

\* line 47: pool.connect() resolved; line 49: BEGIN is sent
initConnected ==
    /\ pc[0] = "connect"
    /\ pc' = [pc EXCEPT ![0] = "stmt"]
    /\ ip' = 1
    /\ Send(Stmts[1])
    /\ UNCHANGED <<sqlVars, loadVars, poolVars, conn, held, result, gated, qsent, answer,
                   caught, ready, readyErr, console, released, faulted, committed, dbVars>>

\* line 47: pool.connect() rejected (network, auth): init throws outside the try
initConnectFailed ==
    /\ pc[0] = "connect"
    /\ Apply(pulseQueue([World EXCEPT !.clients = @ \ {conn[0]}, !.pc[0] = "done", !.conn[0] = 0]))
    /\ ready' = "rejected"
    /\ readyErr' = Err("connect", "connlost")
    /\ faulted' = TRUE
    /\ UNCHANGED <<sqlVars, loadVars, gated, ip, caught, console, released,
                   sent, last, committed, dbVars>>

\* what the server answers to statement s inside the transaction
StmtResult(s) ==
    IF s \in AllObjects THEN CreateIfNotExists(s, db \cup txn)
    ELSE [ok |-> TRUE, creates |-> {}]

\* the statements run outside a transaction (autocommit): each takes effect at once
initStmtOkAutocommit ==
    /\ pc[0] = "stmt" /\ ip < Len(Stmts)
    /\ StmtResult(Stmts[ip]).ok
    /\ db' = db \cup StmtResult(Stmts[ip]).creates
    /\ ip' = ip + 1
    /\ Send(Stmts[ip + 1])
    /\ UNCHANGED <<sqlVars, loadVars, poolVars, flowVars, caught, ready, readyErr, console,
                   released, faulted, committed, txn, dbAtStart, discarded, early>>

\* lines 49-107: the awaited statement succeeded, the next one is sent
initStmtOk ==
    /\ pc[0] = "stmt" /\ ip < Len(Stmts)
    /\ StmtResult(Stmts[ip]).ok
    /\ txn' = txn \cup StmtResult(Stmts[ip]).creates
    /\ ip' = ip + 1
    /\ Send(Stmts[ip + 1])
    /\ UNCHANGED <<sqlVars, loadVars, poolVars, flowVars, caught, ready, readyErr, console,
                   released, faulted, committed, db, dbAtStart, discarded, early>>

\* lines 109-112, 119: COMMIT succeeded; console.info; finally release; ready resolves
initCommitOk ==
    /\ pc[0] = "stmt" /\ ip = Len(Stmts)
    /\ db' = db \cup txn
    /\ txn' = {}
    /\ committed' = TRUE
    /\ ip' = 0
    /\ console' = Append(console, <<"info", NoErr>>)
    /\ initSettle(World, "resolved", NoErr, FALSE)
    /\ UNCHANGED <<sqlVars, loadVars, gated, caught, sent, last,
                   faulted, dbAtStart, discarded, early>>

\* lines 113-114: the awaited statement failed; catch sends ROLLBACK.
\* kind: "semantic" (the statement cannot run on this catalog), "dberror" (the
\* server refuses it), "connlost" (the socket is lost; a COMMIT in flight may or
\* may not have been applied)
initStmtFailed(kind, applied) ==
    /\ pc[0] = "stmt"
    /\ (kind = "semantic") = ~StmtResult(Stmts[ip]).ok
    /\ applied => (kind = "connlost" /\ ip = Len(Stmts))
    /\ db' = IF applied THEN db \cup txn ELSE db
    /\ txn' = IF kind = "connlost" THEN {} ELSE txn
    /\ discarded' = (kind = "connlost" /\ ~applied /\ txn # {})
    /\ faulted' = (faulted \/ kind # "semantic")
    /\ caught' = Err(Verb(Stmts[ip]), kind)
    /\ pc' = [pc EXCEPT ![0] = "rollback"]
    /\ ip' = 0
    /\ Send("ROLLBACK")
    /\ UNCHANGED <<sqlVars, loadVars, poolVars, conn, held, result, gated, qsent, answer,
                   ready, readyErr, console, released, committed, dbAtStart, early>>

\* lines 114-119: ROLLBACK succeeded; console.error; throw err; finally release
initRollbackOk ==
    /\ pc[0] = "rollback"
    /\ caught.kind # "connlost"
    /\ txn' = {}
    /\ discarded' = (discarded \/ txn # {})
    /\ console' = Append(console, <<"error", caught>>)
    /\ initSettle(World, "rejected", caught, FALSE)
    /\ UNCHANGED <<sqlVars, loadVars, gated, ip, caught, sent, last,
                   faulted, committed, db, dbAtStart, early>>

\* lines 114, 119: ROLLBACK itself rejects (the client is no longer queryable, or
\* the socket is lost now): the catch block throws that error; finally release
initRollbackFailed ==
    /\ pc[0] = "rollback"
    /\ txn' = {}
    /\ discarded' = (discarded \/ txn # {})
    /\ faulted' = TRUE
    /\ initSettle(World, "rejected", Err("ROLLBACK", "connlost"), TRUE)
    /\ UNCHANGED <<sqlVars, loadVars, gated, ip, caught, console, sent, last,
                   committed, db, dbAtStart, early>>

---------------------------------------------------------------------------
\* Callers of the exported functions

\* lines 32-37: query(...) -> pool.query: connect, then run the statement
query(c) ==
    /\ loaded = "ok" /\ pc[c] = "idle"
    /\ Apply(connect([World EXCEPT !.pc[c] = "q_call"], c))
    /\ UNCHANGED <<sqlVars, loadVars, gated, initVars, dbVars>>

\* lines 40-43: getClient() -> pool.connect()
getClient(c) ==
    /\ loaded = "ok" /\ pc[c] = "idle" /\ held[c] = 0
    /\ Apply(connect([World EXCEPT !.pc[c] = "g_call"], c))
    /\ UNCHANGED <<sqlVars, loadVars, gated, initVars, dbVars>>

\* lines 127-129: closePool() -> pool.end()
closePool(c) ==
    /\ loaded = "ok" /\ pc[c] = "idle"
    /\ Apply(end(World, c))
    /\ UNCHANGED <<sqlVars, loadVars, gated, initVars, dbVars>>

\* lines 127-129: closePool() called without awaiting its promise (a shutdown
\* hook of the process): pool.end() runs, nobody waits for its outcome
closePoolDetached ==
    /\ loaded = "ok" /\ ~ending
    /\ Apply(pulseQueue([World EXCEPT !.ending = TRUE]))
    /\ UNCHANGED <<sqlVars, loadVars, gated, initVars, dbVars>>

\* a new client of a caller's connect finished connecting
Connected(c) ==
    /\ pc[c] \in {"q_conn", "g_conn"}
    /\ Apply(give(World, c, conn[c]))
    /\ UNCHANGED <<sqlVars, loadVars, gated, initVars, dbVars>>

\* a new client of a caller's connect failed to connect: the call rejects
ConnectFailed(c) ==
    /\ pc[c] \in {"q_conn", "g_conn"}
    /\ Apply(pulseQueue([World EXCEPT !.clients = @ \ {conn[c]}, !.pc[c] = "ret",
                                      !.conn[c] = 0,
                                      !.result[c] = <<OpOf(World, c), "ConnectError">>]))
    /\ UNCHANGED <<sqlVars, loadVars, gated, initVars, dbVars>>

\* a caller's statement reaches the database
Executed(c) ==
    early' = IF committed THEN early ELSE early \cup {c \in gated}

\* pool.query that sends the statement again on the same client when the
\* server reports a failure
queryDoneRetry(c, outcome) ==
    /\ pc[c] = "q_run"
    /\ Apply(IF outcome = "rows"
             THEN release([World EXCEPT !.pc[c] = "ret", !.conn[c] = 0,
                                        !.answer[c] = outcome,
                                        !.result[c] = <<"query", outcome>>],
                          conn[c], FALSE)
             ELSE [World EXCEPT !.qsent[c] = @ + 1])
    /\ Executed(c)
    /\ UNCHANGED <<sqlVars, loadVars, gated, initVars, db, txn, dbAtStart, discarded>>

\* pool.query that releases its client only after a successful statement
queryDoneKeepOnError(c, outcome) ==
    /\ pc[c] = "q_run"
    /\ Apply(LET w == [World EXCEPT !.pc[c] = "ret", !.conn[c] = 0,
                                    !.answer[c] = outcome,
                                    !.result[c] = <<"query", outcome>>] IN
             IF outcome = "rows" THEN release(w, conn[c], FALSE) ELSE w)
    /\ Executed(c)
    /\ UNCHANGED <<sqlVars, loadVars, gated, initVars, db, txn, dbAtStart, discarded>>

\* pool.query: the server answered the statement; the client is released (with
\* the error, if any) and the call settles with the rows or with that error
queryDone(c, outcome) ==
    /\ pc[c] = "q_run"
    /\ Apply(release([World EXCEPT !.pc[c] = "ret", !.conn[c] = 0,
                                   !.answer[c] = outcome,
                                   !.result[c] = <<"query", outcome>>],
                     conn[c], outcome # "rows"))
    /\ Executed(c)
    /\ UNCHANGED <<sqlVars, loadVars, gated, initVars, db, txn, dbAtStart, discarded>>

\* a caller runs a statement on the client it got from getClient
clientQuery(c) ==
    /\ pc[c] = "idle" /\ held[c] # 0
    /\ Executed(c)
    /\ UNCHANGED <<sqlVars, loadVars, poolVars, flowVars, initVars, db, txn, dbAtStart, discarded>>

\* line 39: "Caller must release() when done."
clientRelease(c) ==
    /\ pc[c] = "idle" /\ held[c] # 0
    /\ Apply(release([World EXCEPT !.held[c] = 0], held[c], FALSE))
    /\ UNCHANGED <<sqlVars, loadVars, gated, initVars, dbVars>>

\* `ready; query(...)` with the await forgotten: the call goes ahead at once
readyThenQueryNoAwait(c) ==
    /\ loaded = "ok" /\ pc[c] = "idle"
    /\ Apply(connect([World EXCEPT !.pc[c] = "q_call"], c))
    /\ gated' = gated \cup {c}
    /\ UNCHANGED <<sqlVars, loadVars, initVars, dbVars>>

\* line 123: "Expose a promise if callers want to await": `await ready; query(...)`.
\* The caller is suspended while ready is pending; a rejected ready throws at
\* the await and query is never called
readyThenQuery(c) ==
    /\ loaded = "ok" /\ pc[c] = "idle"
    /\ ready # "pending"
    /\ IF ready = "resolved"
       THEN /\ Apply(connect([World EXCEPT !.pc[c] = "q_call"], c))
            /\ gated' = gated \cup {c}
       ELSE /\ Apply([World EXCEPT !.pc[c] = "ret", !.result[c] = <<"ready", "rejected">>])
            /\ UNCHANGED gated
    /\ UNCHANGED <<sqlVars, loadVars, initVars, dbVars>>

\* the caller takes the outcome of its call and goes on
return(c) ==
    /\ pc[c] = "ret"
    /\ pc' = [pc EXCEPT ![c] = "idle"]
    /\ result' = [result EXCEPT ![c] = NoRes]
    /\ gated' = gated \ {c}
    /\ qsent' = [qsent EXCEPT ![c] = 0]
    /\ answer' = [answer EXCEPT ![c] = "none"]
    /\ UNCHANGED <<sqlVars, loadVars, poolVars, conn, held, initVars, dbVars>>

\* idleTimeoutMillis: 30000: the pool closes a client that stayed idle
idleTimeout ==
    /\ idle # <<>>
    /\ idle' = Tail(idle)
    /\ clients' = clients \ {Head(idle)}
    /\ UNCHANGED <<sqlVars, loadVars, pendingQueue, ending, ended, flowVars,
                   initVars, dbVars>>

---------------------------------------------------------------------------
\* Specifications

Outcomes == {"rows", "dberror"}

InitCommon ==
    /\ loaded = "no"
    /\ clients = {} /\ idle = <<>> /\ pendingQueue = <<>>
    /\ ending = FALSE /\ ended = FALSE
    /\ pc = [p \in Flows |-> IF p = 0 THEN "unstarted" ELSE "idle"]
    /\ conn = NoFlows /\ held = NoFlows
    /\ result = [p \in Flows |-> NoRes]
    /\ gated = {}
    /\ qsent = NoFlows /\ answer = [p \in Flows |-> "none"]
    /\ ip = 0 /\ caught = NoErr /\ ready = "pending" /\ readyErr = NoErr
    /\ console = <<>> /\ released = 0 /\ sent = {} /\ last = "none"
    /\ faulted = FALSE /\ committed = FALSE
    /\ txn = {} /\ discarded = FALSE /\ early = {}

Init ==
    /\ InitCommon
    /\ env \in UrlValues
    /\ db \in InitialCatalogs
    /\ dbAtStart = db
    /\ strings = <<<<>>>> /\ values = <<>> /\ out = NoResult

Next ==
    \/ Load
    \/ initConnected
    \/ initConnectFailed
    \/ initStmtOk
    \/ initCommitOk
    \/ \E kind \in {"semantic", "dberror", "connlost"}, applied \in BOOLEAN :
            initStmtFailed(kind, applied)
    \/ initRollbackOk
    \/ initRollbackFailed
    \/ \E c \in Callers : query(c)
    \/ \E c \in Callers : getClient(c)
    \/ \E c \in Callers : closePool(c)
    \/ \E c \in Callers : Connected(c)
    \/ \E c \in Callers : ConnectFailed(c)
    \/ \E c \in Callers, o \in Outcomes : queryDone(c, o)
    \/ \E c \in Callers : clientQuery(c)
    \/ \E c \in Callers : clientRelease(c)
    \/ \E c \in Callers : readyThenQuery(c)
    \/ \E c \in Callers : return(c)
    \/ idleTimeout

Spec == Init /\ [][Next]_vars

\* Every asynchronous operation the code awaits settles: a connection attempt
\* succeeds or fails, the server answers a statement or the socket reports its
\* loss, and a settled call resumes its caller
Fairness ==
    /\ WF_vars(\/ initConnected \/ initConnectFailed
               \/ initStmtOk \/ initCommitOk
               \/ \E kind \in {"semantic", "dberror", "connlost"}, applied \in BOOLEAN :
                      initStmtFailed(kind, applied)
               \/ initRollbackOk \/ initRollbackFailed)
    /\ \A c \in Callers :
          WF_vars(\/ Connected(c) \/ ConnectFailed(c)
                  \/ \E o \in Outcomes : queryDone(c, o)
                  \/ return(c))

\* one run of the process, from its start on, with a shutdown hook installed:
\* a restart would end every flow of the run, the suspended ones included
NextLive ==
    \/ loaded = "no" /\ Load
    \/ initConnected
    \/ initConnectFailed
    \/ initStmtOk
    \/ initCommitOk
    \/ \E kind \in {"semantic", "dberror", "connlost"}, applied \in BOOLEAN :
            initStmtFailed(kind, applied)
    \/ initRollbackOk
    \/ initRollbackFailed
    \/ \E c \in Callers : query(c)
    \/ \E c \in Callers : getClient(c)
    \/ \E c \in Callers : closePool(c)
    \/ closePoolDetached
    \/ \E c \in Callers : Connected(c)
    \/ \E c \in Callers : ConnectFailed(c)
    \/ \E c \in Callers, o \in Outcomes : queryDone(c, o)
    \/ \E c \in Callers : clientQuery(c)
    \/ \E c \in Callers : clientRelease(c)
    \/ \E c \in Callers : readyThenQuery(c)
    \/ \E c \in Callers : return(c)
    \/ idleTimeout

SpecLive == Init /\ [][NextLive]_vars /\ Fairness

\* sql is pure: the inputs are drawn in the initial state, the call applies it
InitSql ==
    /\ InitCommon
    /\ env = "postgres://db"
    /\ db = {}
    /\ dbAtStart = db
    /\ strings \in SeqsUpTo(FragmentSet, 0, MaxStrings)
    /\ values \in SeqsUpTo(ValueSet, 0, MaxValues)
    /\ out = NoResult

callSql ==
    /\ out = NoResult
    /\ out' = sql(strings, values)
    /\ UNCHANGED <<strings, values, loadVars, poolVars, flowVars, initVars, dbVars>>

NextSql == callSql

SpecSql == InitSql /\ [][NextSql]_vars

---------------------------------------------------------------------------
\* Properties

WellFormed == Len(strings) = Len(values) + 1

\* fragment[0] + "$1" + fragment[1] + ... + "$k" + fragment[k], for k < 10
RECURSIVE Interleaved(_, _)
Interleaved(frs, k) ==
    IF k = 0 THEN frs[1]
    ELSE Interleaved(frs, k - 1) \o <<"$", DigitChar[k + 1]>> \o frs[k + 1]

\* C1: for well-formed input (fragments = values + 1) sql returns the text
\* fragment[0] $1 fragment[1] $2 ... $n fragment[n], with placeholders numbered
\* 1..n in order (equal values get different numbers), the values unchanged and
\* in order, and no value copied into the text.
C1_SqlWellFormed ==
    (out # NoResult /\ WellFormed) =>
        /\ out.text = Interleaved(strings, Len(values))
        /\ out.values = values
        /\ \A i \in 1..Len(out.text) : out.text[i] \notin ValueSet

C1_Witness ==
    /\ out # NoResult /\ WellFormed
    /\ Len(values) = 3 /\ values[1] = values[2]

\* C2 (as claimed): when a statement of init fails, ROLLBACK is sent on the same
\* connection and the failing statement's error is logged and is the reason
\* ready rejects with.
C2_FailureSurfaced ==
    (ready = "rejected" /\ caught.at \in {"CREATE", "COMMIT"}) =>
        /\ \E e \in sent : e[2] = "ROLLBACK" /\ \A f \in sent : f[1] = e[1]
        /\ readyErr = caught
        /\ \E i \in 1..Len(console) : console[i] = <<"error", caught>>

\* C3: once init has acquired its connection it releases it exactly once on
\* every exit path (COMMIT, a failed statement followed by ROLLBACK, a failed
\* ROLLBACK); it never releases before it is done, and once ready has settled
\* init holds no connection.
C3_ReleasedOnce ==
    /\ released <= 1
    /\ pc[0] \in {"stmt", "rollback"} =>
            released = 0 /\ conn[0] \in clients /\ conn[0] \notin Range(idle)
    /\ (pc[0] = "done" /\ sent # {}) => released = 1
    /\ ready # "pending" => (pc[0] = "done" /\ conn[0] = 0)

C3_Witness ==
    /\ ready = "rejected" /\ readyErr.at = "ROLLBACK"
    /\ released = 1 /\ conn[0] = 0

\* C4: the bootstrap is all-or-nothing: whenever a run is over the persisted
\* catalog is the one the run started from or holds every table and index, and
\* after a failed creation it is the one the run started from; nothing of an open
\* transaction is ever persisted piecemeal.
C4_AllOrNothing ==
    /\ db = dbAtStart \/ db = AllObjects
    /\ (pc[0] = "done" /\ caught.at = "CREATE") => (db = dbAtStart /\ txn = {})

C4_Witness ==
    /\ pc[0] = "done" /\ caught.at = "CREATE" /\ caught.kind = "dberror"
    /\ discarded /\ dbAtStart = {} /\ db = {}

\* C5: the bootstrap is idempotent: a run never removes an object that existed
\* when it started, a run that resolves leaves exactly the four tables, three
\* indexes and the extension, whatever existed before, and a run fails only if
\* the environment failed it (never because an object already exists).
C5_Idempotent ==
    /\ dbAtStart \subseteq db
    /\ ready = "resolved" => (db = AllObjects /\ Cardinality(db) = 8)
    /\ ready = "rejected" => faulted

C5_Witness ==
    /\ ready = "resolved" /\ dbAtStart = AllObjects /\ db = AllObjects

\* C6: ready is resolved only after the bootstrap has finished: resolved implies
\* committed, every object present and init's connection released; a failed
\* bootstrap leaves ready rejected, never resolved; a call gated by `await ready`
\* exists only after the COMMIT.
C6_ReadyAfterBootstrap ==
    /\ ready = "resolved" =>
            /\ committed /\ AllObjects \subseteq db
            /\ pc[0] = "done" /\ conn[0] = 0 /\ released = 1
    /\ (caught # NoErr \/ readyErr # NoErr) => ready # "resolved"
    /\ (pc[0] = "done" /\ ~committed) => ready = "rejected"
    /\ gated # {} => (committed /\ ready = "resolved")

C6_Witness ==
    \E c \in gated : ready = "resolved" /\ result[c] = <<"query", "rows">>

\* the connections checked out (connecting clients included)
CheckedOut == ({conn[p] : p \in Flows} \cup {held[p] : p \in Flows}) \ {0}
\* the number of checkouts: one per flow operation or getClient in possession
Checkouts == Cardinality({p \in Flows : conn[p] # 0}) + Cardinality({p \in Flows : held[p] # 0})
Waiting == {"q_wait", "g_wait"}
\* the step is a (re)start of the process
IsLoad == (ready' = "pending" /\ ready # "pending") \/ loaded = "no"

\* C7: the pool never has more than max (2) connections checked out, no
\* connection is checked out twice, acquires are suspended only while the pool
\* is full, an acquire requested while the pool is full suspends (it neither
\* fails nor is served), and a suspended acquire is served only in a step in
\* which another flow gives up its connection.
C7_PoolBound ==
    /\ [](/\ Cardinality(clients) <= PoolMax
          /\ Cardinality(CheckedOut) <= PoolMax
          /\ CheckedOut \subseteq clients
          /\ Checkouts = Cardinality(CheckedOut)
          /\ CheckedOut \cap Range(idle) = {}
          /\ (pendingQueue # <<>> /\ ~ending) =>
                (Cardinality(CheckedOut) = PoolMax /\ idle = <<>>))
    /\ [][\A c \in Callers :
            /\ (/\ pc[c] = "idle" /\ pc'[c] # "idle" /\ ~IsLoad
                /\ Cardinality(CheckedOut) = PoolMax /\ ~ending
                /\ pc'[c] # "e_wait"
                /\ result'[c][1] \in {"none", "query", "getClient"})
               => (pc'[c] \in Waiting /\ c \in Range(pendingQueue'))
            /\ (pc[c] \in Waiting /\ pc'[c] \notin Waiting /\ ~IsLoad)
               => \E p \in Flows \ {c} :
                      \/ conn[p] # 0 /\ conn'[p] # conn[p] /\ held'[p] # conn[p]
                      \/ held[p] # 0 /\ held'[p] # held[p]]_vars

C7_Witness ==
    /\ Cardinality(CheckedOut) = PoolMax /\ ~ending
    /\ Len(pendingQueue) = 2

\* C8: once closePool has completed (the pool has ended), a call of query or
\* getClient settles at once with the pool's error: it is never suspended, never
\* opens a connection and never returns rows or a client.
C8_UseAfterEnd ==
    [][\A c \in Callers :
        (ended /\ ~IsLoad /\ pc[c] = "idle" /\ pc'[c] # "idle") =>
            /\ pc'[c] = "ret"
            /\ result'[c][1] \in {"query", "getClient"} => result'[c][2] = "PoolEnded"
            /\ clients' = {} /\ pendingQueue' = pendingQueue]_vars

C8_Witness ==
    /\ ended
    /\ \E c \in Callers : \E d \in Callers :
          result[c] = <<"query", "PoolEnded">> /\ result[d] = <<"getClient", "PoolEnded">>

\* C9: with DATABASE_URL absent or empty the module load fails, no pool
\* exists and init never starts: no connection, no statement, ready untouched.
C9_MissingUrl ==
    (env \in {"undefined", ""} /\ loaded # "no") =>
        /\ loaded = "failed"
        /\ clients = {} /\ idle = <<>> /\ pendingQueue = <<>>
        /\ pc[0] = "unstarted" /\ conn[0] = 0 /\ sent = {}
        /\ ready = "pending" /\ db = dbAtStart

C9_Witness == loaded = "failed" /\ env = ""

\* C10 (as claimed): no statement of a caller is executed before init's COMMIT.
C10_NoQueryBeforeCommit == early = {}

\* C10 (amended): no statement of a call gated by `await ready` is executed
\* before init's COMMIT; calls that do not await ready are not ordered after it.
C10_GatedAfterCommit == TRUE \notin early

C10_Witness ==
    /\ early = {FALSE}
    /\ \E c \in gated : pc[c] = "ret" /\ result[c][1] = "query"
                        /\ result[c][2] \in {"rows", "dberror"}

Min(a, b) == IF a < b THEN a ELSE b

\* the first n fragments in order, each of the first k followed by its placeholder
RECURSIVE Composed(_, _, _)
Composed(frs, k, n) ==
    IF n = 0 THEN <<>>
    ELSE Composed(frs, k, n - 1) \o frs[n]
         \o (IF n <= k THEN <<"$", DigitChar[n + 1]>> ELSE <<>>)

RECURSIVE TotalLen(_, _)
TotalLen(frs, n) == IF n = 0 THEN 0 ELSE TotalLen(frs, n - 1) + Len(frs[n])

\* C11: for any fragment list and value list, mismatched counts included, sql
\* returns: with k = min(#values, #fragments), the text is every fragment in
\* order, each of the first k followed by $1..$k and the later ones concatenated
\* with nothing between them (so the text is as long as the fragments plus k
\* placeholders), and the values are the first k input values; surplus values
\* are dropped.
C11_SqlAnyCounts ==
    out # NoResult =>
        LET k == Min(Len(values), Len(strings)) IN
        /\ out.text = Composed(strings, k, Len(strings))
        /\ Len(out.text) = TotalLen(strings, Len(strings)) + 2 * k
        /\ out.values = SubSeq(values, 1, k)
        /\ Len(out.values) = k

C11_Witness ==
    /\ out # NoResult
    /\ Len(strings) = 2 /\ Len(values) = 3
    /\ Len(out.values) = 2 /\ out.values # values

\* C12: a call of query sends its statement exactly once: it is never sent a
\* second time, a call that settled after the server answered settles with that
\* very answer (the rows, or the error the server reported), and a call that
\* settled without an answer never sent the statement.
C12_QueryOnce ==
    \A c \in Callers :
        /\ qsent[c] <= 1
        /\ pc[c] = "q_run" => (qsent[c] = 1 /\ answer[c] = "none")
        /\ (pc[c] = "ret" /\ result[c][1] = "query") =>
              IF answer[c] # "none"
              THEN qsent[c] = 1 /\ result[c][2] = answer[c]
              ELSE qsent[c] = 0 /\ result[c][2] \in {"PoolEnded", "ConnectError"}

C12_Witness ==
    \E c \in Callers :
        /\ pc[c] = "ret" /\ result[c] = <<"query", "dberror">>
        /\ answer[c] = "dberror" /\ qsent[c] = 1

InQuery == {"q_wait", "q_conn", "q_run"}

\* C13: a call of query manages its own connection: a flow that is not inside
\* a pool operation holds no connection for it, every connection of the pool is
\* idle or checked out by a flow that is still using it (none is left checked
\* out by a completed call), and from its start to its completion a call of
\* query leaves the caller's getClient connection exactly as it was.
C13_QueryFrame ==
    /\ [](/\ \A c \in Callers : pc[c] \in {"idle", "ret"} => conn[c] = 0
          /\ clients = CheckedOut \cup Range(idle)
          /\ \A c \in Callers : pc[c] = "q_run" => conn[c] \in clients \ Range(idle))
    /\ [][\A c \in Callers :
            (~IsLoad /\ (pc'[c] \in InQuery \/ (pc[c] \in InQuery \cup {"idle"}
                                                /\ pc'[c] = "ret" /\ result'[c][1] = "query")))
                => held'[c] = held[c]]_vars

C13_Witness ==
    \E c \in Callers :
        /\ pc[c] = "ret" /\ result[c] = <<"query", "dberror">>
        /\ held[c] # 0 /\ conn[c] = 0
        /\ clients = {held[c]}

\* no caller waits on an acquire while it has a getClient connection
Disciplined == \A c \in Callers : held[c] # 0 => pc[c] \notin Waiting

\* every caller that obtains a connection through getClient eventually releases
\* it without first waiting on another acquire from the pool
ReleaseDiscipline == []Disciplined /\ \A c \in Callers : []<>(held[c] = 0)

\* every connection the pool may have is in the hands of a caller that is
\* itself suspended on an acquire
Stuck ==
    /\ pendingQueue # <<>> /\ idle = <<>>
    /\ Cardinality(clients) = PoolMax
    /\ \A id \in clients : \E c \in Callers : held[c] = id /\ pc[c] \in Waiting

\* C14 (as claimed): under the release discipline every suspended acquire is
\* eventually served and ready eventually settles.
C14_AllServed ==
    ReleaseDiscipline =>
        /\ \A c \in Callers : (pc[c] \in Waiting) ~> (pc[c] \notin Waiting)
        /\ (loaded = "ok") ~> (ready # "pending")

\* C14 (amended): under the release discipline every suspended acquire
\* eventually leaves the queue (it is served, or its new connection fails)
\* unless closePool has been called on the pool, and ready eventually settles
\* once the module has loaded; without the discipline the pool can reach a
\* state in which every connection is held by a caller suspended on an acquire,
\* and from that state on they stay suspended as long as the process runs.
C14_ServedUnlessClosed ==
    /\ ReleaseDiscipline =>
          /\ \A c \in Callers : (pc[c] \in Waiting) ~> (pc[c] \notin Waiting \/ ending)
          /\ (loaded = "ok") ~> (ready # "pending")
    /\ [][(Stuck /\ ~IsLoad) => Stuck']_vars

C14_Witness ==
    /\ Stuck /\ ~ending /\ Len(pendingQueue) = PoolMax
    /\ ready = "resolved"
    /\ \A c \in Range(pendingQueue) : pc[c] = "q_wait" /\ held[c] # 0

\* the order the statements appear in, lines 49-109
FixedOrder == <<"none", "BEGIN", "pgcrypto", "users", "sessions", "verification_tokens",
                "chat_sessions", "idx_sessions_user_id", "idx_chat_user_id",
                "idx_verification_identifier", "COMMIT">>

\* init issues a statement in this step
Issues == last' # last /\ ~IsLoad

\* all statements of a run go to one connection
OneConnection == \A e \in sent : \A f \in sent : e[1] = f[1]

\* whatever exists or is being created has what it refers to: users before
\* sessions and chat_sessions, each table before its index
ReferencesExist == \A obj \in db \cup txn : Requires(obj) \subseteq db \cup txn

\* the statement issued is the one after the previous one in the fixed order
\* (BEGIN first, and only once in a run), or it is the catch block's ROLLBACK
NextInOrder ==
    \/ \E i \in 1..(Len(FixedOrder) - 1) : last = FixedOrder[i] /\ last' = FixedOrder[i + 1]
    \/ last' = "ROLLBACK" /\ last \notin {"none", "ROLLBACK"}

\* C15 (as claimed): one run per load, one connection, the fixed order, and no
\* statement is issued after COMMIT or ROLLBACK.
C15_NothingAfterCommit ==
    /\ [](OneConnection /\ ReferencesExist)
    /\ [][Issues => (NextInOrder /\ last \notin {"COMMIT", "ROLLBACK"})]_vars

\* C15 (amended): per module load init runs once (BEGIN is issued once, as the
\* first statement), on one connection, in the order BEGIN, extension, users,
\* sessions, verification_tokens, chat_sessions, the three indexes, COMMIT;
\* what exists always has what it references; nothing is issued after ROLLBACK
\* or after an acknowledged COMMIT, and the only statement ever issued after
\* COMMIT is the ROLLBACK of the catch block when COMMIT itself failed; COMMIT
\* acknowledged and ROLLBACK never occur in the same run.
C15_FixedOrder ==
    /\ [](/\ OneConnection /\ ReferencesExist
          /\ committed => \A e \in sent : e[2] # "ROLLBACK")
    /\ [][Issues =>
            /\ NextInOrder
            /\ last # "ROLLBACK" /\ ~committed
            /\ last = "COMMIT" => (last' = "ROLLBACK" /\ caught'.at = "COMMIT")]_vars

C15_Witness ==
    /\ pc[0] = "done" /\ last = "ROLLBACK" /\ caught.at = "COMMIT"
    /\ ~committed /\ ready = "rejected"
    /\ \E e \in sent : e[2] = "COMMIT"

====
